---- MODULE Spec2Model ----
(***************************************************************************)
(* Razure: model of the Rust code generator (RustGenerator::generate and   *)
(* its helpers), of serde's resolution of the untagged DefinitionType enum *)
(* and of the hand-written enum deserializers of parser/models.rs.         *)
(*                                                                         *)
(* Strings whose characters matter (names that are sanitized or formatted, *)
(* enum spellings that are lower-cased) are sequences of one-character     *)
(* strings.                                                                *)
(***************************************************************************)
EXTENDS Integers, Sequences, FiniteSets, TLC

VARIABLES
    specifications,      \* generate: the input map, document key -> SpecificationFile
    pc,                  \* generate: position in the function body
    remaining,           \* generate: keys the `for` loop has not yet visited
    cur,                 \* generate: {key} of the document of the current iteration, or {}
    swagger,             \* generate: result of parse_specification_file (Option<Swagger>)
    paramStructs,        \* result of the last generate_parameters call
    defStructs,          \* result of the last generate_definitions call
    data,                \* generate: `data` of the current iteration
    files,               \* file system under <output>/src: path -> declarations written
    file_mod_statements, \* generate: BTreeMap file_name -> module-declaration line
    libCalls,            \* sequence of the arguments create_lib_file was called with
    projectOk,           \* result of create_project
    hist,                \* history: outcome of every visited document, data of a written one
    node,                \* DefinitionType resolution: the document node
    resolved,            \* DefinitionType resolution: the variant serde picks
    enumKind,            \* enum decoding: which Deserialize impl is used
    raw,                 \* enum decoding: the raw input string
    decoded              \* enum decoding: the Result

vars == <<specifications, pc, remaining, cur, swagger, paramStructs, defStructs,
          data, files, file_mod_statements, libCalls, projectOk, hist,
          node, resolved, enumKind, raw, decoded>>

genVars == <<specifications, pc, remaining, cur, swagger, paramStructs, defStructs,
             data, files, file_mod_statements, libCalls, projectOk, hist>>
resolveVars == <<node, resolved>>
enumVars == <<enumKind, raw, decoded>>

-----------------------------------------------------------------------------
(* Bounds *)

MaxDocs == 2

DocKeys == 1..MaxDocs

-----------------------------------------------------------------------------
(* Characters *)

LowerChars == <<"a","b","c","d","e","f","g","h","i","j","k","l","m",
                "n","o","p","q","r","s","t","u","v","w","x","y","z">>
UpperChars == <<"A","B","C","D","E","F","G","H","I","J","K","L","M",
                "N","O","P","Q","R","S","T","U","V","W","X","Y","Z">>
DigitChars == {"0","1","2","3","4","5","6","7","8","9"}

ToLowerChar(c) ==
    IF \E i \in 1..Len(UpperChars) : UpperChars[i] = c
    THEN LowerChars[CHOOSE i \in 1..Len(UpperChars) : UpperChars[i] = c]
    ELSE c

ToUpperChar(c) ==
    IF \E i \in 1..Len(LowerChars) : LowerChars[i] = c
    THEN UpperChars[CHOOSE i \in 1..Len(LowerChars) : LowerChars[i] = c]
    ELSE c

\* str::to_lowercase
ToLowercase(s) == [i \in 1..Len(s) |-> ToLowerChar(s[i])]

EmptyMap == [x \in {} |-> x]

-----------------------------------------------------------------------------
(* Input domains *)

ParamNames == {<<"a","-","b">>, <<"A","B">>}
DefNames == {<<"A","B">>, <<"p">>}
\* names used by the documents of a whole run
RunParamNames == {<<"A","B">>}
RunDefNames == {<<"A","B">>}
FileNames == {<<"F">>, <<"g","-","h">>}
DomainNames == {<<"D">>, <<"e">>}

\* PropertyType of a Parameter; "None" is Option::None
PropertyTypes == {"String", "Number", "Integer", "Boolean", "Object", "Array"}
OptPropertyTypes == PropertyTypes \cup {"None"}

\* The variants of DefinitionType
DefinitionVariants == {"Object", "Array", "String", "Number", "Integer", "Boolean"}

\* properties of an Object variant: property name -> declared type tag
PropertyMaps == {EmptyMap, [n \in {<<"i","d">>} |-> "integer"]}
RunPropertyMaps == {EmptyMap}

Parameters == [property_type : OptPropertyTypes]

DefinitionTypes(pmaps) ==
    {[variant |-> "Object", properties |-> p] : p \in pmaps}
    \cup {[variant |-> v, properties |-> EmptyMap] : v \in DefinitionVariants \ {"Object"}}

Definitions(pmaps) == [schema : DefinitionTypes(pmaps)]

Maps(names, vals) == UNION {[S -> vals] : S \in SUBSET names}

\* Option<HashMap<String, T>>
NoneMap == [some |-> FALSE, map |-> EmptyMap]
OptMaps(names, vals) == {NoneMap} \cup {[some |-> TRUE, map |-> m] : m \in Maps(names, vals)}

\* the parts of Swagger that generate reads
SwaggersOver(pnames, dnames, pmaps) ==
    [parameters : OptMaps(pnames, Parameters),
     definitions : OptMaps(dnames, Definitions(pmaps))]

Swaggers == SwaggersOver(ParamNames, DefNames, PropertyMaps)
RunSwaggers == SwaggersOver(RunParamNames, RunDefNames, RunPropertyMaps)

\* Option<Swagger>
NoSwagger == [some |-> FALSE, value |-> [parameters |-> NoneMap, definitions |-> NoneMap]]
SomeSwagger(sw) == [some |-> TRUE, value |-> sw]

SpecificationFiles == [file_name : FileNames, domain_name : DomainNames]

-----------------------------------------------------------------------------
(* Helpers of the generator *)

RECURSIVE CamelCase(_, _)
CamelCase(s, up) ==
    IF s = <<>> THEN <<>>
    ELSE IF Head(s) \in {"-", "_", " ", "."} THEN CamelCase(Tail(s), TRUE)
    ELSE IF up /\ Head(s) \in DigitChars THEN CamelCase(Tail(s), TRUE)
    ELSE <<(IF up THEN ToUpperChar(Head(s)) ELSE Head(s))>> \o CamelCase(Tail(s), FALSE)

\* format_name_as_valid_struct_identifier: upper camel case, separators removed,
\* no leading digit
FormatNameAsValidStructIdentifier(name) == CamelCase(name, TRUE)

\* format_as_file_name: lower case, '-' replaced by '_'
FormatAsFileName(name) ==
    [i \in 1..Len(name) |-> IF name[i] = "-" THEN "_" ELSE ToLowerChar(name[i])]

\* RustType::get_type_as_string; "None" is Option::None
GetTypeAsString(t) ==
    CASE t = "String" -> "String"
      [] t = "Number" -> "f32"
      [] t = "Integer" -> "i32"
      [] t = "Boolean" -> "bool"
      [] OTHER -> "None"

\* format!(r#"pub struct {0}({1});"#, formatted_name, struct_type)
CreateStructSimpleType(name, struct_type) ==
    <<"pub struct ", FormatNameAsValidStructIdentifier(name), "(", struct_type, ");">>

\* create_struct: a struct named by the sanitized name with the declared properties
CreateStruct(name, properties) ==
    <<"pub struct ", FormatNameAsValidStructIdentifier(name), "{", properties, "}">>

\* the arm `PropertyType::String | PropertyType::Integer | PropertyType::Number`
IsPrimitiveArm(t) == t \in {"String", "Integer", "Number"}

\* the arm `DefinitionType::Object { properties }`
IsObjectArmMut(schema) == schema.variant \in {"Object", "Array"}
IsObjectArm(schema) == schema.variant = "Object"

\* RustGenerator::generate_parameters
GenerateParameters(parameters) ==
    LET inserted == {n \in DOMAIN parameters :
                        /\ parameters[n].property_type # "None"
                        /\ IsPrimitiveArm(parameters[n].property_type)
                        /\ GetTypeAsString(parameters[n].property_type) # "None"}
    IN [n \in inserted |->
            CreateStructSimpleType(n, GetTypeAsString(parameters[n].property_type))]

\* RustGenerator::generate_definitions
GenerateDefinitions(definitions) ==
    LET inserted == {n \in DOMAIN definitions : IsObjectArm(definitions[n].schema)}
    IN [n \in inserted |-> CreateStruct(n, definitions[n].schema.properties)]

\* HashMap::extend: entries of b replace entries of a with the same key
Extend(a, b) ==
    [k \in (DOMAIN a) \cup (DOMAIN b) |-> IF k \in DOMAIN b THEN b[k] ELSE a[k]]

\* BTreeMap::insert / HashMap::insert
Insert(m, k, v) == [x \in (DOMAIN m) \cup {k} |-> IF x = k THEN v ELSE m[x]]

FullName(sf) ==
    FormatAsFileName(sf.domain_name) \o <<"_">> \o FormatAsFileName(sf.file_name)
FilePath(sf) == <<"src/">> \o FullName(sf) \o <<".rs">>
FileModStatement(sf) == <<"pub mod ">> \o FullName(sf) \o <<";\n">>
\* the key file_mod_statements.insert uses
ManifestKey(sf) == FormatAsFileName(sf.file_name)

\* create_file: on success the file at the path holds the declarations
CreateFile(fs, path, decls, ok) == IF ok THEN Insert(fs, path, decls) ELSE fs

\* the match on create_file's result: the Ok arm registers the module line
RegisterMut(fms, sf, ok) == Insert(fms, ManifestKey(sf), FileModStatement(sf))
Register(fms, sf, ok) ==
    IF ok THEN Insert(fms, ManifestKey(sf), FileModStatement(sf)) ELSE fms

\* `if data.is_empty() { continue; }`
SkipsMut(d) == FALSE
Skips(d) == DOMAIN d = {}

\* the `for` loop is left when the iterator is exhausted
LoopFinishedMut(rem) == TRUE
LoopFinished(rem) == rem = {}

Pending == [outcome |-> "pending", data |-> EmptyMap]
ParseFailed == [outcome |-> "parse_failed", data |-> EmptyMap]

\* the document of the current iteration
CurDoc == CHOOSE d \in cur : TRUE

-----------------------------------------------------------------------------
(* RustGenerator::generate *)

Undecoded == [ok |-> FALSE, value |-> "Pending", raw |-> <<>>, expected |-> {}]

IdleResolve == node = EmptyMap /\ resolved = "None"
IdleEnum == enumKind = "None" /\ raw = <<>> /\ decoded = Undecoded
IdleGenerate ==
    /\ specifications = EmptyMap
    /\ pc = "idle"
    /\ remaining = {}
    /\ cur = {}
    /\ swagger = NoSwagger
    /\ paramStructs = EmptyMap
    /\ defStructs = EmptyMap
    /\ data = EmptyMap
    /\ files = EmptyMap
    /\ file_mod_statements = EmptyMap
    /\ libCalls = <<>>
    /\ projectOk = FALSE
    /\ hist = EmptyMap

Init ==
    /\ specifications \in [DocKeys -> SpecificationFiles]
    /\ pc = "start"
    /\ remaining = DocKeys
    /\ cur = {}
    /\ swagger = NoSwagger
    /\ paramStructs = EmptyMap
    /\ defStructs = EmptyMap
    /\ data = EmptyMap
    /\ files = EmptyMap
    /\ file_mod_statements = EmptyMap
    /\ libCalls = <<>>
    /\ projectOk = FALSE
    /\ hist = [d \in DocKeys |-> Pending]
    /\ IdleResolve
    /\ IdleEnum

\* the locals of one loop iteration go out of scope when it ends
EndIteration ==
    /\ pc' = "loop"
    /\ cur' = {}
    /\ swagger' = NoSwagger
    /\ paramStructs' = EmptyMap
    /\ defStructs' = EmptyMap
    /\ data' = EmptyMap

\* match create_project(output_path)
CreateProject ==
    /\ pc = "start"
    /\ \E ok \in BOOLEAN :
        /\ projectOk' = ok
        /\ pc' = IF ok THEN "loop" ELSE "done"
    /\ file_mod_statements' = EmptyMap
    /\ UNCHANGED <<specifications, remaining, cur, swagger, paramStructs, defStructs,
                   data, files, libCalls, hist>>
    /\ UNCHANGED <<resolveVars, enumVars>>

\* next iteration of the loop: parse_specification_file returns Some(swagger), then
\* data.extend(generate_parameters(..)); data.extend(generate_definitions(..))
ParseAndCollect(contents) ==
    /\ pc = "loop"
    /\ \E d \in remaining, sw \in contents :
        LET ps == IF sw.parameters.some
                  THEN GenerateParameters(sw.parameters.map) ELSE EmptyMap
            ds == IF sw.definitions.some
                  THEN GenerateDefinitions(sw.definitions.map) ELSE EmptyMap
        IN /\ cur' = {d}
           /\ remaining' = remaining \ {d}
           /\ swagger' = SomeSwagger(sw)
           /\ paramStructs' = ps
           /\ defStructs' = ds
           /\ data' = Extend(Extend(EmptyMap, ps), ds)
    /\ pc' = "collected"
    /\ UNCHANGED <<specifications, files, file_mod_statements, libCalls, projectOk, hist>>
    /\ UNCHANGED <<resolveVars, enumVars>>

ParseDocument == ParseAndCollect(RunSwaggers)

\* next iteration of the loop: parse_specification_file returns None
ParseFails ==
    /\ pc = "loop"
    /\ \E d \in remaining :
        /\ remaining' = remaining \ {d}
        /\ hist' = [hist EXCEPT ![d] = ParseFailed]
    /\ UNCHANGED <<specifications, pc, cur, swagger, paramStructs, defStructs, data,
                   files, file_mod_statements, libCalls, projectOk>>
    /\ UNCHANGED <<resolveVars, enumVars>>

\* if data.is_empty() { println!(..); continue; }
SkipFile ==
    /\ pc = "collected"
    /\ Skips(data)
    /\ hist' = [hist EXCEPT ![CurDoc] = [outcome |-> "skipped", data |-> EmptyMap]]
    /\ EndIteration
    /\ UNCHANGED <<specifications, remaining, files, file_mod_statements, libCalls,
                   projectOk>>
    /\ UNCHANGED <<resolveVars, enumVars>>

\* match create_file(&file_path, &data) { Ok => insert the mod line, Err => report }
WriteFile ==
    /\ pc = "collected"
    /\ ~Skips(data)
    /\ \E ok \in BOOLEAN :
        LET sf == specifications[CurDoc] IN
        /\ files' = CreateFile(files, FilePath(sf), data, ok)
        /\ file_mod_statements' = Register(file_mod_statements, sf, ok)
        /\ hist' = [hist EXCEPT ![CurDoc] =
                      IF ok THEN [outcome |-> "written", data |-> data]
                      ELSE [outcome |-> "write_failed", data |-> EmptyMap]]
    /\ EndIteration
    /\ UNCHANGED <<specifications, remaining, libCalls, projectOk>>
    /\ UNCHANGED <<resolveVars, enumVars>>

\* after the loop: match create_lib_file(output_path, &file_mod_statements)
CreateLibFile ==
    /\ pc = "loop"
    /\ LoopFinished(remaining)
    /\ \E ok \in BOOLEAN :
        libCalls' = Append(libCalls, [mods |-> file_mod_statements, ok |-> ok])
    /\ pc' = "done"
    /\ UNCHANGED <<specifications, remaining, cur, swagger, paramStructs, defStructs,
                   data, files, file_mod_statements, projectOk, hist>>
    /\ UNCHANGED <<resolveVars, enumVars>>

Next ==
    \/ CreateProject
    \/ ParseDocument
    \/ ParseFails
    \/ SkipFile
    \/ WriteFile
    \/ CreateLibFile

Spec == Init /\ [][Next]_vars

-----------------------------------------------------------------------------
(* One iteration of the loop over every parsed content: the last document of a   *)
(* run in which the documents before it failed to parse                         *)

InitCollect ==
    /\ specifications = [d \in DocKeys |-> [file_name |-> <<"F">>, domain_name |-> <<"D">>]]
    /\ pc = "loop"
    /\ \E d \in DocKeys :
        /\ remaining = {d}
        /\ hist = [e \in DocKeys |-> IF e = d THEN Pending ELSE ParseFailed]
    /\ cur = {}
    /\ swagger = NoSwagger
    /\ paramStructs = EmptyMap
    /\ defStructs = EmptyMap
    /\ data = EmptyMap
    /\ files = EmptyMap
    /\ file_mod_statements = EmptyMap
    /\ libCalls = <<>>
    /\ projectOk = TRUE
    /\ IdleResolve
    /\ IdleEnum

ParseAnyDocument == ParseAndCollect(Swaggers)

NextCollect ==
    \/ ParseAnyDocument
    \/ SkipFile
    \/ WriteFile

SpecCollect == InitCollect /\ [][NextCollect]_vars

-----------------------------------------------------------------------------
(* Properties of generate *)

WrittenDocs == {d \in DocKeys : hist[d].outcome = "written"}
FailedDocs == {d \in DocKeys : hist[d].outcome \in {"parse_failed", "write_failed"}}

\* a declaration `pub struct Name(type);`
IsWrapper(decl) == decl[1] = "pub struct " /\ decl[3] = "(" /\ decl[5] = ");"
\* a declaration `pub struct Name { .. }`
IsStruct(decl) == decl[1] = "pub struct " /\ decl[3] = "{" /\ decl[5] = "}"
TypeNameOf(decl) == decl[2]

NoEligibleContent(sw) ==
    /\ \A n \in DOMAIN sw.parameters.map :
          sw.parameters.map[n].property_type \notin {"String", "Integer", "Number"}
    /\ \A n \in DOMAIN sw.definitions.map :
          sw.definitions.map[n].schema.variant # "Object"

\* C1: while a document whose parsed content has no Object definition and no
\* string/integer/number parameter is being processed, no step writes a file or
\* registers a manifest line, and the document ends skipped (create_file is not
\* called for it).
C1_NoOutputForEmptyDocument ==
    [][(pc = "collected" /\ NoEligibleContent(swagger.value))
        => /\ files' = files
           /\ file_mod_statements' = file_mod_statements
           /\ hist'[CurDoc].outcome = "skipped"]_vars

C1_Witness ==
    /\ pc = "collected"
    /\ NoEligibleContent(swagger.value)
    /\ data = EmptyMap
    /\ \E n \in DOMAIN swagger.value.parameters.map :
          swagger.value.parameters.map[n].property_type = "Object"
    /\ \E n \in DOMAIN swagger.value.definitions.map :
          swagger.value.definitions.map[n].schema.variant = "Array"
    /\ WrittenDocs # {}

\* C2: at the end of a run the mapping passed to create_lib_file has as many
\* module-declaration lines as there are documents whose file was written.
C2_ManifestLinePerWrittenFile ==
    (pc = "done" /\ projectOk)
        => Cardinality(DOMAIN libCalls[1].mods) = Cardinality(WrittenDocs)

\* the files and manifest lines present are exactly those of the written documents
C3_OutputsOfWrittenDocs ==
    /\ DOMAIN files = {FilePath(specifications[d]) : d \in WrittenDocs}
    /\ DOMAIN file_mod_statements = {ManifestKey(specifications[d]) : d \in WrittenDocs}
    /\ \A q \in DOMAIN files : \E d \in WrittenDocs :
          FilePath(specifications[d]) = q /\ files[q] = hist[d].data
    /\ \A k \in DOMAIN file_mod_statements : \E d \in WrittenDocs :
          /\ ManifestKey(specifications[d]) = k
          /\ file_mod_statements[k] = FileModStatement(specifications[d])

\* a failing step, and parsing and collecting, leave files and manifest alone
C3_Step ==
    /\ (\E d \in DocKeys : d \notin FailedDocs /\ d \in FailedDocs')
          => (files' = files /\ file_mod_statements' = file_mod_statements)
    /\ pc' = "collected"
          => (files' = files /\ file_mod_statements' = file_mod_statements /\ hist' = hist)

\* C3: a document whose parse or write fails contributes no output file and no
\* manifest line (the step in which it fails changes neither), and between the
\* iterations the files and manifest lines present are exactly those of the
\* documents written, each with the content of such a document; parsing and
\* collecting changes none of them.
C3_FailureIsolated ==
    /\ [](pc # "collected" => C3_OutputsOfWrittenDocs)
    /\ [][C3_Step]_vars

C3_Witness ==
    /\ pc = "done"
    /\ \E d1 \in FailedDocs, d2 \in WrittenDocs :
        /\ specifications[d1].file_name = specifications[d2].file_name
        /\ libCalls[1].mods[ManifestKey(specifications[d2])]
              = FileModStatement(specifications[d2])

\* the run that visits the documents in key order, with the same parse and write results
RECURSIVE CanonicalRun(_)
CanonicalRun(k) ==
    IF k = 0 THEN [files |-> EmptyMap, mods |-> EmptyMap]
    ELSE LET prev == CanonicalRun(k - 1)
             sf == specifications[k]
         IN IF hist[k].outcome = "written"
            THEN [files |-> Insert(prev.files, FilePath(sf), hist[k].data),
                  mods |-> Insert(prev.mods, ManifestKey(sf), FileModStatement(sf))]
            ELSE prev

\* C4: the files written and the manifest do not depend on the order in which the
\* loop visits the documents: they are those of the run in key order.
C4_Deterministic ==
    (pc = "done" /\ projectOk)
        => /\ files = CanonicalRun(MaxDocs).files
           /\ libCalls[1].mods = CanonicalRun(MaxDocs).mods

\* C10 as claimed: every finished run has called create_lib_file exactly once.
C10_ManifestWrittenOnce == pc = "done" => Len(libCalls) = 1

C10_State ==
    /\ pc = "done" \/ ENABLED Next
    /\ Len(libCalls) = (IF pc = "done" /\ projectOk THEN 1 ELSE 0)
    /\ (pc = "done" /\ projectOk)
          => /\ remaining = {}
             /\ \A d \in DocKeys : hist[d].outcome # "pending"
             /\ libCalls[1].mods = file_mod_statements
    /\ (pc = "done" /\ ~projectOk)
          => /\ files = EmptyMap
             /\ \A d \in DocKeys : hist[d].outcome = "pending"

C10_Step ==
    /\ Len(libCalls) > 0 => (files' = files /\ hist' = hist /\ remaining' = remaining)
    /\ remaining' # remaining => (pc = "loop" /\ cur = {})
    /\ hist' # hist => (\E d \in DocKeys : \A e \in DocKeys \ {d} : hist'[e] = hist[e])

\* C10 (amended): every run terminates; when create_project succeeds,
\* create_lib_file is called exactly once, after every document has been parsed
\* and (if it has content) written, and nothing is written afterwards; a document
\* is only begun when none is in progress; when create_project fails no document
\* is processed and create_lib_file is not called.
C10_ManifestLastWhenProjectCreated == []C10_State /\ [][C10_Step]_vars

C10_Witness ==
    /\ pc = "done"
    /\ projectOk
    /\ Len(libCalls) = 1
    /\ WrittenDocs # {}
    /\ FailedDocs # {}

\* C5: after Collect, data holds a wrapper declaration under the name of every
\* string/integer/number parameter and no parameter-derived declaration for any
\* other parameter.
C5_WrapperForEveryPrimitiveParameter ==
    (pc = "collected" /\ swagger.value.parameters.some)
        => \A n \in DOMAIN swagger.value.parameters.map :
              IF swagger.value.parameters.map[n].property_type
                    \in {"String", "Integer", "Number"}
              THEN n \in DOMAIN data /\ IsWrapper(data[n])
              ELSE n \notin DOMAIN data \/ ~IsWrapper(data[n])

\* C6: generate_definitions yields one struct declaration for every Object
\* definition and nothing for any other variant.
C6_StructPerObjectDefinition ==
    (pc = "collected" /\ swagger.value.definitions.some)
        => LET defs == swagger.value.definitions.map
               objects == {n \in DOMAIN defs : defs[n].schema.variant = "Object"}
           IN /\ DOMAIN defStructs = objects
              /\ \A n \in objects : IsStruct(defStructs[n])
              /\ Cardinality(DOMAIN defStructs) = Cardinality(objects)

C6_Witness ==
    /\ pc = "collected"
    /\ \E n1, n2 \in DOMAIN swagger.value.definitions.map :
        /\ swagger.value.definitions.map[n1].schema.variant = "Object"
        /\ swagger.value.definitions.map[n2].schema.variant = "Array"
    /\ Cardinality(DOMAIN defStructs) = 1

\* C9: every parameter declaration is a wrapper `pub struct <Name>(<type>);` and
\* two eligible parameters of one document with different names get different
\* type names, so the document's file never declares one type name twice.
C9_DistinctTypeNames ==
    pc = "collected"
        => /\ \A n \in DOMAIN paramStructs : IsWrapper(paramStructs[n])
           /\ \A n1, n2 \in DOMAIN paramStructs :
                 n1 # n2 => TypeNameOf(paramStructs[n1]) # TypeNameOf(paramStructs[n2])

-----------------------------------------------------------------------------
(* serde's resolution of the untagged enum DefinitionType *)

NodeKeys == {"type", "items", "properties", "x-nullable"}
TypeTexts == {"string", "number", "integer", "boolean", "object", "array", "tuple"}

\* a JSON value, as far as deserialization looks at it: its kind, the text of a
\* string, and for a map the value of its own "type" entry ("absent" if none)
JsonValues ==
    {[kind |-> "string", text |-> t, typeTag |-> "absent"] : t \in TypeTexts}
    \cup {[kind |-> "bool", text |-> "", typeTag |-> "absent"]}
    \cup {[kind |-> "map", text |-> "", typeTag |-> g] : g \in {"absent"} \cup TypeTexts}

Nodes == UNION {[K -> JsonValues] : K \in SUBSET NodeKeys}

\* #[serde(rename_all = "lowercase")] enum DefinitionPropertyType: exact spellings
DefinitionPropertyTypeNames ==
    {"object", "string", "number", "integer", "boolean", "array"}

\* DefinitionProperty::deserialize succeeds on v: v is a map, its "type" entry, if
\* any, is a DefinitionPropertyType, and its flattened schema resolves (a map
\* always matches the variant String at the latest)
DeserializesAsProperty(v) ==
    /\ v.kind = "map"
    /\ v.typeTag = "absent" \/ v.typeTag \in DefinitionPropertyTypeNames

\* variant Object: `properties` is a flattened map, so every entry of the node
\* must deserialize as a DefinitionProperty
ObjectMatches(n) == \A k \in DOMAIN n : DeserializesAsProperty(n[k])

\* variant Array: the entry `items` must be there and be a DefinitionType
ArrayMatches(n) == "items" \in DOMAIN n /\ n["items"].kind = "map"

\* variant String (and Number, Integer, Boolean after it): only a flattened map
\* of serde_json::Value, which every node matches
StringMatches(n) == TRUE

\* #[serde(untagged)]: the first variant, in declaration order, that deserializes
ResolveDefinitionType(n) ==
    IF ObjectMatches(n) THEN "Object"
    ELSE IF ArrayMatches(n) THEN "Array"
    ELSE IF StringMatches(n) THEN "String"
    ELSE "Number"

InitResolve ==
    /\ node \in Nodes
    /\ resolved = "None"
    /\ IdleGenerate
    /\ IdleEnum

Resolve ==
    /\ resolved = "None"
    /\ resolved' = ResolveDefinitionType(node)
    /\ UNCHANGED <<node, genVars, enumVars>>

NextResolve == Resolve

SpecResolve == InitResolve /\ [][NextResolve]_vars

PrimitiveVariantOf(t) ==
    CASE t = "string" -> "String"
      [] t = "number" -> "Number"
      [] t = "integer" -> "Integer"
      [] t = "boolean" -> "Boolean"

\* the precedence the claim states
ClaimedVariant(n) ==
    IF "items" \in DOMAIN n THEN "Array"
    ELSE IF "properties" \in DOMAIN n THEN "Object"
    ELSE IF /\ "type" \in DOMAIN n
            /\ n["type"].kind = "string"
            /\ n["type"].text \in {"string", "number", "integer", "boolean"}
         THEN PrimitiveVariantOf(n["type"].text)
    ELSE "Object"

\* C7: the variant a node resolves to is the one the precedence items, properties,
\* primitive type, Object gives.
C7_ResolutionFollowsPrecedence ==
    resolved # "None" => resolved = ClaimedVariant(node)

-----------------------------------------------------------------------------
(* The enum deserializers *)

S_post == <<"p","o","s","t">>
S_get == <<"g","e","t">>
S_put == <<"p","u","t">>
S_delete == <<"d","e","l","e","t","e">>
S_patch == <<"p","a","t","c","h">>
S_head == <<"h","e","a","d">>
S_string == <<"s","t","r","i","n","g">>
S_number == <<"n","u","m","b","e","r">>
S_integer == <<"i","n","t","e","g","e","r">>
S_boolean == <<"b","o","o","l","e","a","n">>
S_array == <<"a","r","r","a","y">>
S_object == <<"o","b","j","e","c","t">>
S_200 == <<"2","0","0">>
S_201 == <<"2","0","1">>
S_202 == <<"2","0","2">>
S_204 == <<"2","0","4">>
S_default == <<"d","e","f","a","u","l","t">>

\* the match arms: spelling -> variant
MethodArms ==
    {<<S_post, "Post">>, <<S_get, "Get">>, <<S_put, "Put">>, <<S_delete, "Delete">>,
     <<S_patch, "Patch">>, <<S_head, "Head">>}
SchemaTypeArms ==
    {<<S_string, "String">>, <<S_number, "Number">>, <<S_integer, "Integer">>,
     <<S_boolean, "Boolean">>, <<S_array, "Array">>, <<S_object, "Object">>}
HttpStatusArms ==
    {<<S_200, "Ok">>, <<S_201, "Created">>, <<S_202, "Accepted">>,
     <<S_204, "NoContent">>, <<S_default, "Default">>}
\* the variants of DefinitionPropertyType under rename_all = "lowercase"
DefinitionPropertyTypeArms ==
    {<<S_object, "Object">>, <<S_string, "String">>, <<S_number, "Number">>,
     <<S_integer, "Integer">>, <<S_boolean, "Boolean">>, <<S_array, "Array">>}

\* the `expected` lists handed to serde::de::Error::unknown_variant
MethodExpected == {S_post, S_get, S_put, S_delete, S_patch, S_head}
SchemaTypeExpected == {S_object, S_string}
HttpStatusExpected == {S_200, S_201, S_202, S_204, S_default}
DefinitionPropertyTypeExpected ==
    {S_object, S_string, S_number, S_integer, S_boolean, S_array}

\* match key { arms.., _ => Err(unknown_variant(&raw, expected)) }
MatchArms(arms, expected, key, s) ==
    IF \E a \in arms : a[1] = key
    THEN [ok |-> TRUE, value |-> (CHOOSE a \in arms : a[1] = key)[2],
          raw |-> s, expected |-> {}]
    ELSE [ok |-> FALSE, value |-> "None", raw |-> s, expected |-> expected]

\* the key the hand-written impls match on: method_str.to_lowercase()
MatchKey(s) == ToLowercase(s)

DeserializeMethod(s) == MatchArms(MethodArms, MethodExpected, MatchKey(s), s)
DeserializeSchemaType(s) == MatchArms(SchemaTypeArms, SchemaTypeExpected, MatchKey(s), s)
DeserializeHttpStatus(s) == MatchArms(HttpStatusArms, HttpStatusExpected, MatchKey(s), s)
\* the derived impl compares the string as it is
DeserializeDefinitionPropertyType(s) ==
    MatchArms(DefinitionPropertyTypeArms, DefinitionPropertyTypeExpected, s, s)

EnumKinds == {"Method", "SchemaType", "HttpStatus", "DefinitionPropertyType"}

Deserialize(kind, s) ==
    CASE kind = "Method" -> DeserializeMethod(s)
      [] kind = "SchemaType" -> DeserializeSchemaType(s)
      [] kind = "HttpStatus" -> DeserializeHttpStatus(s)
      [] kind = "DefinitionPropertyType" -> DeserializeDefinitionPropertyType(s)

ArmsOf(kind) ==
    CASE kind = "Method" -> MethodArms
      [] kind = "SchemaType" -> SchemaTypeArms
      [] kind = "HttpStatus" -> HttpStatusArms
      [] kind = "DefinitionPropertyType" -> DefinitionPropertyTypeArms

\* every upper/lower-case variant of a spelling
CaseVariants(sp) ==
    {[i \in 1..Len(sp) |-> IF b[i] THEN ToUpperChar(sp[i]) ELSE sp[i]] :
        b \in [1..Len(sp) -> BOOLEAN]}

Unrecognized == {<<"f","e","t","c","h">>, <<"t","u","p","l","e">>, <<"4","0","4">>, <<>>}

RawInputs(kind) == Unrecognized \cup UNION {CaseVariants(a[1]) : a \in ArmsOf(kind)}

InitEnum ==
    /\ enumKind \in EnumKinds
    /\ raw \in RawInputs(enumKind)
    /\ decoded = Undecoded
    /\ IdleGenerate
    /\ IdleResolve

DeserializeEnum ==
    /\ decoded = Undecoded
    /\ decoded' = Deserialize(enumKind, raw)
    /\ UNCHANGED <<enumKind, raw, genVars, resolveVars>>

NextEnum == DeserializeEnum

SpecEnum == InitEnum /\ [][NextEnum]_vars

\* C8: a raw string whose lower-case form is a recognized spelling decodes to that
\* spelling's value; any other string fails with an error naming the raw string
\* and the whole set of spellings the enum accepts.
C8_CaseInsensitiveDecoding ==
    decoded # Undecoded
        => LET spellings == {a[1] : a \in ArmsOf(enumKind)}
           IN IF ToLowercase(raw) \in spellings
              THEN /\ decoded.ok
                   /\ <<ToLowercase(raw), decoded.value>> \in ArmsOf(enumKind)
              ELSE /\ ~decoded.ok
                   /\ decoded.raw = raw
                   /\ decoded.expected = spellings

====
